---- MODULE Spec2Model ----
(***************************************************************************)
(* Triangulum: the registry, the listener/awaiter dispatch engine and the  *)
(* send/receive pipeline of AbstractListenerManager (as instantiated by    *)
(* JSONListenerManager) and of InternalListenerManager.                    *)
(*                                                                         *)
(* A JavaScript value handled by a manager is a record                     *)
(*   [form, cls, chan, value, tostr]                                       *)
(* form  : "garbage" (a string that is no JSON text), "null", "prim" (a    *)
(*         number, string, boolean) or "obj";                              *)
(* cls   : the object's prototype ("Object" for a plain object);           *)
(* chan  : the object's OWN `channel` property (Absent when it has none);  *)
(* value : the payload field;                                              *)
(* tostr : "inherited" when the object converts to a string, "shadowed"    *)
(*         when an own, non-callable `toString` property makes the         *)
(*         conversion `${x}` throw a TypeError.                            *)
(* User-supplied code (validators, predicates, listener callbacks and      *)
(* transmit) is taken to return normally and to call nothing of the        *)
(* manager while it runs.                                                  *)
(***************************************************************************)
EXTENDS Integers, Sequences, FiniteSets, TLC

VARIABLES
    kind,          \* which concrete manager: "json" or "internal"
    registries,    \* Registry.entries of every Registry object
    protoChannel,  \* constructor.prototype.channel of every class
    listeners,     \* Map<string, Set<callback>> (a Set keeps insertion order)
    awaiters,      \* Array<Awaiter>, each with the number of the call that made it
    queue,         \* the outbound queue
    refs,          \* the queue holds references: refs[i] is the position at which
                   \* the instance queued at position i was queued first
    isReady,       \* the ready flag
    transmitted,   \* every value handed to transmit, in call order
    created,       \* every awaiter ever created, in awaitMessage call order
    resolvedCount, \* how often each created awaiter's promise was resolved (capped at 2)
    last           \* the last call: its operation, argument and observable outcome

vars == <<kind, registries, protoChannel, listeners, awaiters, queue, refs, isReady,
          transmitted, created, resolvedCount, last>>

dispatchVars == <<listeners, awaiters, created, resolvedCount>>
sendVars == <<queue, refs, isReady, transmitted>>
registryVars == <<registries, protoChannel>>

----------------------------------------------------------------------------
(* Bounds of the model *)

MaxQueue == 2
MaxTransmits == 3
MaxAwaits == 2
MaxPending == 3

----------------------------------------------------------------------------
(* JavaScript values *)

Absent == "<absent>"        \* the object has no own `channel` property
Undefined == "<undefined>"  \* the value undefined
NonString == "<number>"     \* a channel value that is not a string

NoData == [form |-> "none", cls |-> "Object", chan |-> Absent, value |-> "-", tostr |-> "inherited"]

Obj(cls, chan, value) ==
    [form |-> "obj", cls |-> cls, chan |-> chan, value |-> value, tostr |-> "inherited"]

Classes == {"Ping", "Pong", "Alien", "Stray", "Object"}
Callbacks == {"cb1", "cb2"}

\* typeof channel === "string"
IsString(channel) == channel \notin {Absent, Undefined, NonString}

----------------------------------------------------------------------------
(* Registry and type registration *)

Registries == {"main", "other"}

\* the registry the manager under test was constructed with
ManagerRegistry == "main"

\* validators given to MakeSendable: "anything" accepts every value,
\* "number" accepts an object whose `value` field is a number (typeof
\* value === "number", which NaN satisfies)
Numbers == {"5", "7", "NaN"}

Strat(strategy, data) == strategy = "anything" \/ data.value \in Numbers

\* Sendable.channel(): this.prototype.channel
StaticChannel(proto, cls) == proto[cls]

\* Registry.register: entries.set(classToRegister.channel(), [class, strats, customData])
Register(regs, proto, reg, cls, strats) ==
    [regs EXCEPT ![reg] =
        (StaticChannel(proto, cls) :> [cls |-> cls, strats |-> strats]) @@ @]

\* MakeSendable: constructor.prototype.channel = channel; registry.register(...)
MakeSendable(regs, proto, reg, channel, strategy, cls) ==
    LET p == [proto EXCEPT ![cls] = channel]
    IN  [registries |-> Register(regs, p, reg, cls, strategy), protoChannel |-> p]

\* the decorators that run at module load, in order: Ping and Pong are
\* registered in the manager's registry, Alien in another registry, Stray
\* (and plain objects) in none
Decorators ==
    << [reg |-> "main",  channel |-> "ping",  strategy |-> "anything", cls |-> "Ping"],
       [reg |-> "main",  channel |-> "pong",  strategy |-> "number",   cls |-> "Pong"],
       [reg |-> "other", channel |-> "alien", strategy |-> "number",   cls |-> "Alien"] >>

RECURSIVE Decorate(_, _)
Decorate(st, ds) ==
    IF ds = <<>> THEN st
    ELSE LET d == Head(ds)
         IN  Decorate(MakeSendable(st.registries, st.protoChannel,
                                   d.reg, d.channel, d.strategy, d.cls), Tail(ds))

NoRegistrations ==
    [registries |-> [r \in Registries |-> <<>>],
     protoChannel |-> [c \in Classes |-> Undefined]]

\* the registrations a program may run: each class with its validator, under
\* either channel name, in either registry
RegistrationClasses == {"Ping", "Pong"}
RegistrationChannels == {"ping", "pong"}
StrategyOf(cls) == IF cls = "Ping" THEN "anything" ELSE "number"

\* @MakeSendable(registry, channel, strategy) applied to a class
DecorateClass(reg, channel, cls) ==
    /\ LET st == MakeSendable(registries, protoChannel, reg, channel, StrategyOf(cls), cls)
       IN  registries' = st.registries /\ protoChannel' = st.protoChannel
    /\ last' = [op |-> "MakeSendable", data |-> NoData, cls |-> cls, cb |-> channel,
                threw |-> FALSE, notified |-> NoData, invoked |-> <<>>,
                resolved |-> <<>>]
    /\ UNCHANGED <<kind, listeners, awaiters, queue, refs, isReady, transmitted,
                   created, resolvedCount>>

\* registry.register(class, strats, []) called directly
RegisterClass(reg, cls) ==
    /\ registries' = Register(registries, protoChannel, reg, cls, StrategyOf(cls))
    /\ last' = [op |-> "register", data |-> NoData, cls |-> cls, cb |-> "-",
                threw |-> FALSE, notified |-> NoData, invoked |-> <<>>,
                resolved |-> <<>>]
    /\ UNCHANGED <<kind, protoChannel, listeners, awaiters, queue, refs, isReady,
                   transmitted, created, resolvedCount>>

\* this.registry.entries
Entries == registries[ManagerRegistry]

\* data.channel: the own property when there is one, else the prototype's
ChannelOf(data) == IF data.chan # Absent THEN data.chan ELSE protoChannel[data.cls]

----------------------------------------------------------------------------
(* Send path *)

\* JSON.stringify(data) throws on a cyclic value
EncodeThrows(data) == kind = "json" /\ data.value = "cyclic"

\* JSONListenerManager.encode: JSON.stringify(data). The text carries the own
\* enumerable properties; a property whose value is undefined is left out and
\* the prototype is not part of the text; NaN is written as null.
\* InternalListenerManager has no encoder: the instance itself is transmitted.
Encode(data) ==
    IF kind = "json"
    THEN [data EXCEPT !.cls = "Object",
                      !.chan = IF data.chan = Undefined THEN Absent ELSE data.chan,
                      !.value = IF data.value = "NaN" THEN "null" ELSE data.value]
    ELSE data

\* data.channel = Object.getPrototypeOf(data).channel
Stamp(data) == [data EXCEPT !.chan = protoChannel[data.cls]]

\* the registry check of send: this.registry.entries.has(data.channel)
Accepts(data) == ChannelOf(data) \in DOMAIN Entries

\* send(data) run with ready flag rdy, queue q and transmit log tx: whether it
\* threw, the queue and log it leaves, and the (possibly stamped) instance
SendCall(data, rdy, q, tx) ==
    IF ~Accepts(data)
    THEN [threw |-> TRUE, queue |-> q, transmitted |-> tx, data |-> data]
    ELSE IF ~rdy
    THEN [threw |-> FALSE, queue |-> Append(q, data), transmitted |-> tx, data |-> data]
    ELSE IF EncodeThrows(Stamp(data))
    THEN [threw |-> TRUE, queue |-> q, transmitted |-> tx, data |-> Stamp(data)]
    ELSE [threw |-> FALSE, queue |-> q,
          transmitted |-> Append(tx, Encode(Stamp(data))), data |-> Stamp(data)]

\* the queue after the instance queued at position i has become `data`: send
\* writes the tag into the instance itself, so every position that holds
\* the same instance shows it
WriteInPlace(q, rf, i, data) ==
    [j \in 1..Len(q) |-> IF rf[j] = rf[i] THEN data ELSE q[j]]

\* this.queue.forEach(v => this.send(v)) from element i on: the first send
\* that throws ends the loop; the queued instances are stamped in place
RECURSIVE Drain(_, _, _, _)
Drain(q, rf, i, tx) ==
    IF i > Len(q)
    THEN [threw |-> FALSE, queue |-> q, transmitted |-> tx]
    ELSE LET r == SendCall(q[i], TRUE, <<>>, tx)
             q2 == WriteInPlace(q, rf, i, r.data)
         IN  IF r.threw
             THEN [threw |-> TRUE, queue |-> q2, transmitted |-> tx]
             ELSE Drain(q2, rf, i + 1, r.transmitted)

\* ready(): isReady = true; drain; this.queue = [] (not reached when a send threw)
ReadyCall(q, rf, tx) ==
    LET r == Drain(q, rf, 1, tx)
    IN  [threw |-> r.threw,
         queue |-> IF r.threw THEN r.queue ELSE <<>>,
         refs |-> IF r.threw THEN rf ELSE <<>>,
         transmitted |-> r.transmitted]

\* the instances the application sends
SendInputs ==
    { Obj("Ping", Absent, "-"),
      Obj("Pong", Absent, "5"),
      Obj("Pong", Absent, "cyclic"),
      Obj("Ping", "pong", "-"),
      Obj("Ping", "bogus", "-"),
      Obj("Stray", Absent, "-"),
      Obj("Stray", "ping", "-"),
      Obj("Alien", Absent, "5") }

\* what a call did: its operation and arguments, whether it threw, the
\* instance it passed to notifyListeners, the callbacks it invoked (in order)
\* and the awaiters (by creation number) it resolved, each with the value
Outcome(op, data, threw) ==
    [op |-> op, data |-> data, cls |-> "-", cb |-> "-", threw |-> threw,
     notified |-> NoData, invoked |-> <<>>, resolved |-> <<>>]

\* send(data) with an instance that is not in the queue
Send(data) ==
    /\ isReady \/ Len(queue) < MaxQueue
    /\ Len(transmitted) < MaxTransmits
    /\ LET r == SendCall(data, isReady, queue, transmitted)
       IN  /\ queue' = r.queue
           /\ refs' = IF Len(r.queue) > Len(queue)
                      THEN Append(refs, Len(queue) + 1) ELSE refs
           /\ transmitted' = r.transmitted
           /\ last' = Outcome("send", data, r.threw)
    /\ UNCHANGED <<kind, isReady, registryVars, dispatchVars>>

\* send(v) with the instance v that is in the queue at position k: while
\* NotReady the queue gets a second reference to it; when Ready (the queue
\* is what an aborted drain left) it is stamped in place and transmitted
SendAgain(k) ==
    /\ k \in 1..Len(queue)
    /\ isReady \/ Len(queue) < MaxQueue
    /\ Len(transmitted) < MaxTransmits
    /\ LET r == SendCall(queue[k], isReady, queue, transmitted)
       IN  /\ queue' = IF Len(r.queue) > Len(queue)
                       THEN r.queue
                       ELSE WriteInPlace(queue, refs, k, r.data)
           /\ refs' = IF Len(r.queue) > Len(queue)
                      THEN Append(refs, refs[k]) ELSE refs
           /\ transmitted' = r.transmitted
           /\ last' = Outcome("send", queue[k], r.threw)
    /\ UNCHANGED <<kind, isReady, registryVars, dispatchVars>>

\* transmit(encoded) of a transport that, while it handles the call, calls
\* send(inner) on the same manager (NoData: it calls nothing). The manager is
\* Ready by then; an exception of the inner send leaves transmit.
TransmitCall(tx, encoded, inner) ==
    IF inner = NoData
    THEN [threw |-> FALSE, transmitted |-> Append(tx, encoded)]
    ELSE LET r == SendCall(inner, TRUE, <<>>, Append(tx, encoded))
         IN  [threw |-> r.threw, transmitted |-> r.transmitted]

\* send(data) called by the drain (isReady is true already), with that transport
SendDuringDrain(data, tx, inner) ==
    IF ~Accepts(data)
    THEN [threw |-> TRUE, transmitted |-> tx, data |-> data]
    ELSE IF EncodeThrows(Stamp(data))
    THEN [threw |-> TRUE, transmitted |-> tx, data |-> Stamp(data)]
    ELSE LET t == TransmitCall(tx, Encode(Stamp(data)), inner)
         IN  [threw |-> t.threw, transmitted |-> t.transmitted, data |-> Stamp(data)]

\* this.queue.forEach(v => this.send(v)) where the transmit of the element
\* numbered `at` calls send(inner)
RECURSIVE DrainReentrant(_, _, _, _, _, _)
DrainReentrant(q, rf, i, tx, at, inner) ==
    IF i > Len(q)
    THEN [threw |-> FALSE, queue |-> q, transmitted |-> tx]
    ELSE LET r == SendDuringDrain(q[i], tx, IF i = at THEN inner ELSE NoData)
             q2 == WriteInPlace(q, rf, i, r.data)
         IN  IF r.threw
             THEN [threw |-> TRUE, queue |-> q2, transmitted |-> r.transmitted]
             ELSE DrainReentrant(q2, rf, i + 1, r.transmitted, at, inner)

\* the instances a transport sends from inside transmit
ReentrantInputs == {Obj("Ping", Absent, "-"), Obj("Pong", Absent, "5")}

\* ready() on a manager whose transport sends `inner` while it transmits the
\* queued message numbered `at`
ReadyReentrant(at, inner) ==
    /\ at \in 1..Len(queue)
    /\ Len(transmitted) + Len(queue) + 1 <= MaxTransmits
    /\ LET r == DrainReentrant(queue, refs, 1, transmitted, at, inner)
       IN  /\ isReady' = TRUE
           /\ queue' = IF r.threw THEN r.queue ELSE <<>>
           /\ refs' = IF r.threw THEN refs ELSE <<>>
           /\ transmitted' = r.transmitted
           /\ last' = Outcome("ready", inner, r.threw)
    /\ UNCHANGED <<kind, registryVars, dispatchVars>>

\* a ready() that flips the flag
ReadyToggles ==
    /\ Len(transmitted) + Len(queue) <= MaxTransmits
    /\ LET r == ReadyCall(queue, refs, transmitted)
       IN  /\ isReady' = ~isReady
           /\ queue' = r.queue
           /\ refs' = r.refs
           /\ transmitted' = r.transmitted
           /\ last' = Outcome("ready", NoData, r.threw)
    /\ UNCHANGED <<kind, registryVars, dispatchVars>>

Ready ==
    /\ Len(transmitted) + Len(queue) <= MaxTransmits
    /\ LET r == ReadyCall(queue, refs, transmitted)
       IN  /\ isReady' = TRUE
           /\ queue' = r.queue
           /\ refs' = r.refs
           /\ transmitted' = r.transmitted
           /\ last' = Outcome("ready", NoData, r.threw)
    /\ UNCHANGED <<kind, registryVars, dispatchVars>>

----------------------------------------------------------------------------
(* Dispatch engine *)

\* predicates given to awaitMessage
Predicates == {"any", "is5"}

Pred(predicate, data) == predicate = "any" \/ data.value = "5"

\* awaiter.channel === data.channel && awaiter.predicate(data)
Matches(awaiter, data) ==
    awaiter.channel = ChannelOf(data) /\ Pred(awaiter.predicate, data)

\* FirstMatch with the scan running from the end of the list
LastMatch(aw, data) ==
    IF \E i \in 1..Len(aw) : Matches(aw[i], data)
    THEN CHOOSE i \in 1..Len(aw) :
            /\ Matches(aw[i], data)
            /\ \A j \in (i + 1)..Len(aw) : ~Matches(aw[j], data)
    ELSE 0

\* the awaiter loop of notifyListeners: the index it stops at, 0 when it
\* runs to the end
FirstMatch(aw, data) ==
    IF \E i \in 1..Len(aw) : Matches(aw[i], data)
    THEN CHOOSE i \in 1..Len(aw) :
            /\ Matches(aw[i], data)
            /\ \A j \in 1..(i - 1) : ~Matches(aw[j], data)
    ELSE 0

\* Splice without the removal
SpliceNothing(aw, i) == aw

\* a removal that fills the gap with the last awaiter (swap and pop)
SpliceSwapLast(aw, i) ==
    [j \in 1..(Len(aw) - 1) |-> IF j = i THEN aw[Len(aw)] ELSE aw[j]]

\* this.awaiters.splice(i, 1)
Splice(aw, i) == SubSeq(aw, 1, i - 1) \o SubSeq(aw, i + 1, Len(aw))

\* Broadcast that stops after the first callback
BroadcastFirstOnly(ls, data) ==
    IF ChannelOf(data) \in DOMAIN ls /\ ls[ChannelOf(data)] # <<>>
    THEN <<ls[ChannelOf(data)][1]>>
    ELSE <<>>

\* this.listeners.get(data.channel)?.forEach(callback => callback(data)):
\* the callbacks invoked, in the Set's insertion order
Broadcast(ls, data) ==
    IF ChannelOf(data) \in DOMAIN ls THEN ls[ChannelOf(data)] ELSE <<>>

\* notifyListeners without the `return` after a match: the listeners are
\* invoked as well
NotifyListenersNoReturn(aw, ls, data) ==
    LET i == FirstMatch(aw, data)
    IN  IF i # 0
        THEN [awaiters |-> Splice(aw, i),
              resolved |-> <<[id |-> aw[i].id, data |-> data]>>,
              invoked |-> Broadcast(ls, data)]
        ELSE [awaiters |-> aw, resolved |-> <<>>, invoked |-> Broadcast(ls, data)]

\* notifyListeners(data)
NotifyListeners(aw, ls, data) ==
    LET i == FirstMatch(aw, data)
    IN  IF i # 0
        THEN [awaiters |-> Splice(aw, i),
              resolved |-> <<[id |-> aw[i].id, data |-> data]>>, invoked |-> <<>>]
        ELSE [awaiters |-> aw, resolved |-> <<>>, invoked |-> Broadcast(ls, data)]

\* an array push in place of Set.add: a repeated element is stored again
SetAddAlways(set, cb) == Append(set, cb)

\* a delete that removes nothing
SetDeleteNothing(set, cb) == set

\* Set.add: an element already in the set keeps its place
SetAdd(set, cb) == IF \E i \in 1..Len(set) : set[i] = cb THEN set ELSE Append(set, cb)

\* Set.delete
SetDelete(set, cb) == SelectSeq(set, LAMBDA x : x # cb)

\* listen(channelClass, callback)
ListenCall(ls, cls, cb) ==
    LET channel == StaticChannel(protoChannel, cls)
        ls2 == IF channel \in DOMAIN ls THEN ls ELSE (channel :> <<>>) @@ ls
    IN  [ls2 EXCEPT ![channel] = SetAdd(@, cb)]

\* stopListening(channelClass, callback)
StopListeningCall(ls, cls, cb) ==
    LET channel == StaticChannel(protoChannel, cls)
    IN  IF channel \notin DOMAIN ls THEN ls
        ELSE [ls EXCEPT ![channel] = SetDelete(@, cb)]

\* awaitMessage(channelClass, predicate): this.awaiters.push({channel, predicate, resolve})
AwaitMessageCall(aw, id, cls, predicate) ==
    Append(aw, [id |-> id, channel |-> StaticChannel(protoChannel, cls),
                predicate |-> predicate])

----------------------------------------------------------------------------
(* Receive path *)

\* `${x}` in a diagnostic: converting an object whose own `toString` is not
\* callable throws a TypeError
Printable(x) == x.form # "obj" \/ x.tostr = "inherited"

\* JSONListenerManager.decode: JSON.parse(data) throws on text that is no
\* JSON; reading `.channel` of the parsed value null throws
DecodeThrows(data) == data.form \in {"garbage", "null"}

\* JSONListenerManager.decode: [decoded.channel, decoded]
Decode(data) ==
    [channel |-> IF data.form = "obj" /\ data.chan # Absent THEN data.chan ELSE Undefined,
     intermediate |-> data]

\* finalize that ignores the type checker's answer
FinalizeNeverThrows(data, typeCheckingLayers) == FALSE

\* JSONListenerManager.finalize: throws when the type checker rejects the data
FinalizeThrows(data, typeCheckingLayers) == ~Strat(typeCheckingLayers, data)

\* JSONListenerManager.finalize: return data as Sendable
Finalize(data, typeCheckingLayers) == data

\* a retagging that leaves the prototype as it is
SetPrototypeOfNothing(intermediate, cls) == intermediate

\* Object.setPrototypeOf(intermediate, classType.prototype)
SetPrototypeOf(intermediate, cls) == [intermediate EXCEPT !.cls = cls]

\* a message dropped before dispatch; a diagnostic that cannot be formatted
\* throws out of onData
Dropped(aw, threw) ==
    [threw |-> threw, notified |-> NoData, awaiters |-> aw,
     resolved |-> <<>>, invoked |-> <<>>]

Notified(aw, ls, data) ==
    LET n == NotifyListeners(aw, ls, data)
    IN  [threw |-> FALSE, notified |-> data, awaiters |-> n.awaiters,
         resolved |-> n.resolved, invoked |-> n.invoked]

\* AbstractListenerManager.onData with the JSON codec
AbstractOnData(aw, ls, data) ==
    IF DecodeThrows(data) THEN Dropped(aw, FALSE)
    ELSE LET channel == Decode(data).channel
             intermediate == Decode(data).intermediate
         IN  IF ~IsString(channel) THEN Dropped(aw, ~Printable(intermediate))
             ELSE IF channel \notin DOMAIN Entries
             THEN Dropped(aw, ~Printable(intermediate))
             ELSE IF FinalizeThrows(intermediate, Entries[channel].strats)
             THEN Dropped(aw, ~Printable(intermediate))
             ELSE Notified(aw, ls,
                     SetPrototypeOf(Finalize(intermediate, Entries[channel].strats),
                                    Entries[channel].cls))

\* InternalListenerManager.onData: `data.channel` of null or undefined
\* throws a TypeError; there is no decoding, validation or retagging
InternalOnData(aw, ls, data) ==
    IF data.form = "null" THEN Dropped(aw, TRUE)
    ELSE LET channel == IF data.form = "obj" THEN ChannelOf(data) ELSE Undefined
         IN  IF channel \notin DOMAIN Entries THEN Dropped(aw, ~Printable(data))
             ELSE Notified(aw, ls, data)

OnDataCall(aw, ls, data) ==
    IF kind = "json" THEN AbstractOnData(aw, ls, data) ELSE InternalOnData(aw, ls, data)

\* what the peer delivers. A JSON manager receives text: `cls` is "Object"
\* for what it parses to. An internal manager receives values.
Shadowed(data) == [data EXCEPT !.tostr = "shadowed"]

Payloads ==
    { [NoData EXCEPT !.form = "null"],
      [NoData EXCEPT !.form = "prim"],
      Shadowed(Obj("Object", Absent, "5")),
      Obj("Object", NonString, "5"),
      Obj("Object", "alien", "5"),
      Shadowed(Obj("Object", "alien", "5")),
      Obj("Object", "ping", "-"),
      Obj("Object", "pong", "5"),
      Obj("Object", "pong", "7"),
      Obj("Object", "pong", "x"),
      Shadowed(Obj("Object", "pong", "x")) }

RawInputs ==
    IF kind = "json"
    THEN Payloads \cup {[NoData EXCEPT !.form = "garbage"]}
    ELSE Payloads \cup {Obj("Pong", Absent, "7")}

ListenInputs == {<<"Pong", "cb1">>, <<"Pong", "cb2">>, <<"Alien", "cb1">>}

AwaitInputs == {<<"Pong", "any">>, <<"Pong", "is5">>, <<"Alien", "any">>}

Listen(cls, cb) ==
    /\ listeners' = ListenCall(listeners, cls, cb)
    /\ last' = [Outcome("listen", NoData, FALSE) EXCEPT !.cls = cls, !.cb = cb]
    /\ UNCHANGED <<kind, registryVars, sendVars, awaiters, created, resolvedCount>>

StopListening(cls, cb) ==
    /\ listeners' = StopListeningCall(listeners, cls, cb)
    /\ last' = [Outcome("stopListening", NoData, FALSE) EXCEPT !.cls = cls, !.cb = cb]
    /\ UNCHANGED <<kind, registryVars, sendVars, awaiters, created, resolvedCount>>

\* awaitMessage(channelClass, predicate) in a program that calls it at most
\* `limit` times
AwaitMessageWithin(limit, cls, predicate) ==
    /\ Len(created) < limit
    /\ awaiters' = AwaitMessageCall(awaiters, Len(created) + 1, cls, predicate)
    /\ created' = Append(created, awaiters'[Len(awaiters')])
    /\ resolvedCount' = Append(resolvedCount, 0)
    /\ last' = [Outcome("awaitMessage", NoData, FALSE) EXCEPT !.cls = cls, !.cb = predicate]
    /\ UNCHANGED <<kind, registryVars, sendVars, listeners>>

AwaitMessage(cls, predicate) == AwaitMessageWithin(MaxAwaits, cls, predicate)

\* an onData that drops everything until the manager is Ready
OnDataWhenReady(data) ==
    /\ LET r == IF isReady THEN OnDataCall(awaiters, listeners, data)
                ELSE Dropped(awaiters, FALSE)
       IN  /\ awaiters' = r.awaiters
           /\ resolvedCount' =
                [id \in DOMAIN resolvedCount |->
                    IF \E k \in 1..Len(r.resolved) : r.resolved[k].id = id
                    THEN IF resolvedCount[id] < 2 THEN resolvedCount[id] + 1 ELSE 2
                    ELSE resolvedCount[id]]
           /\ last' = [Outcome("onData", data, r.threw) EXCEPT
                          !.notified = r.notified,
                          !.invoked = r.invoked,
                          !.resolved = r.resolved]
    /\ UNCHANGED <<kind, registryVars, sendVars, listeners, created>>

OnData(data) ==
    /\ LET r == OnDataCall(awaiters, listeners, data)
       IN  /\ awaiters' = r.awaiters
           /\ resolvedCount' =
                [id \in DOMAIN resolvedCount |->
                    IF \E k \in 1..Len(r.resolved) : r.resolved[k].id = id
                    THEN IF resolvedCount[id] < 2 THEN resolvedCount[id] + 1 ELSE 2
                    ELSE resolvedCount[id]]
           /\ last' = [Outcome("onData", data, r.threw) EXCEPT
                          !.notified = r.notified,
                          !.invoked = r.invoked,
                          !.resolved = r.resolved]
    /\ UNCHANGED <<kind, registryVars, sendVars, listeners, created>>

\* what a callback does while it is invoked for a message: `who` calls listen
\* or stopListening, for another callback `target`, on the channel of the
\* message
ListenerActs == {"listen", "stopListening"}

Reentries ==
    {[who |-> c, act |-> a, target |-> t] :
        c \in Callbacks, a \in ListenerActs, t \in Callbacks} \ 
    {[who |-> c, act |-> a, target |-> c] : c \in Callbacks, a \in ListenerActs}

\* Set.prototype.forEach over the Set the callbacks change meanwhile: the
\* entries are visited in insertion order, i of them are behind; an entry
\* deleted before its turn is not visited, an entry added during the
\* iteration is visited at the end
RECURSIVE ForEachLive(_, _, _)
ForEachLive(set, i, re) ==
    IF i >= Len(set)
    THEN [set |-> set, invoked |-> <<>>]
    ELSE LET cb == set[i + 1]
             set2 == IF cb # re.who THEN set
                     ELSE IF re.act = "listen" THEN SetAdd(set, re.target)
                     ELSE SetDelete(set, re.target)
             pos == CHOOSE k \in 1..Len(set2) : set2[k] = cb
             rest == ForEachLive(set2, pos, re)
         IN  [set |-> rest.set, invoked |-> <<cb>> \o rest.invoked]

\* onData whose message, when it is broadcast, is handled by callbacks that
\* behave as `re` says
OnDataReentrant(data, re) ==
    /\ LET r == OnDataCall(awaiters, listeners, data)
           channel == ChannelOf(r.notified)
           broadcast == /\ r.notified # NoData
                        /\ r.resolved = <<>>
                        /\ channel \in DOMAIN listeners
           live == ForEachLive(listeners[channel], 0, re)
       IN  /\ awaiters' = r.awaiters
           /\ listeners' = IF broadcast
                           THEN [listeners EXCEPT ![channel] = live.set]
                           ELSE listeners
           /\ resolvedCount' =
                [id \in DOMAIN resolvedCount |->
                    IF \E k \in 1..Len(r.resolved) : r.resolved[k].id = id
                    THEN IF resolvedCount[id] < 2 THEN resolvedCount[id] + 1 ELSE 2
                    ELSE resolvedCount[id]]
           /\ last' = [Outcome("onData", data, r.threw) EXCEPT
                          !.notified = r.notified,
                          !.invoked = IF broadcast THEN live.invoked ELSE r.invoked,
                          !.resolved = r.resolved]
    /\ UNCHANGED <<kind, registryVars, sendVars, created>>

\* the messages delivered while callbacks re-enter
ReentrantRawInputs ==
    { Obj("Object", "pong", "5"),
      Obj("Object", "pong", "7"),
      Obj("Object", "alien", "5") }

\* the instances sent through a transport that loops back: those of
\* SendInputs and a Pong whose field is NaN
RoundTripInputs == SendInputs \cup {Obj("Pong", Absent, "NaN")}

\* the transport hands what the Ready manager has just transmitted to onData
\* of a manager over the same registry (ws.onmessage: manager.onData(e.data))
Echo ==
    /\ isReady
    /\ last.op = "send"
    /\ ~last.threw
    /\ transmitted # <<>>
    /\ OnData(transmitted[Len(transmitted)])

\* the calls of a program that uses both directions of one manager: an
\* instance that is sent, one that cannot be encoded and one of an
\* unregistered type; a message that is dispatched and two that are dropped
MixedSendInputs ==
    { Obj("Ping", Absent, "-"),
      Obj("Pong", Absent, "cyclic"),
      Obj("Stray", Absent, "-") }

MixedRawInputs ==
    { [NoData EXCEPT !.form = "null"],
      Obj("Object", "pong", "5"),
      Obj("Object", "pong", "7"),
      Shadowed(Obj("Object", "pong", "x")) }

----------------------------------------------------------------------------
(* Properties *)

Range(seq) == {seq[i] : i \in 1..Len(seq)}

\* the class has an entry in the manager's registry
IsRegistered(cls) == \E ch \in DOMAIN Entries : Entries[ch].cls = cls

\* the channel the manager's registry records for a registered class
RegisteredChannel(cls) == CHOOSE ch \in DOMAIN Entries : Entries[ch].cls = cls

\* the encoded forms of the queued messages, in queue order
EncodedForms(q) == [i \in 1..Len(q) |-> Encode(Stamp(q[i]))]

\* some pending awaiter has the message's channel and accepts the message
SomeAwaiterMatches(aw, data) == \E i \in 1..Len(aw) : Matches(aw[i], data)

\* the step is an onData call that hands a message to notifyListeners
Dispatches == last'.op = "onData" /\ last'.notified # NoData

\* C1: messages of registered types sent while NotReady cause no transmit
\* before ready(), and ready() then transmits the encoded form of every one
\* of them that has an encoded form, in enqueue order.
C1_PreReadyBuffering ==
    [][ /\ ~isReady' => transmitted' = <<>>
        /\ (~isReady /\ isReady' /\ \A i \in 1..Len(queue) : IsRegistered(queue[i].cls))
              => transmitted' =
                    EncodedForms(SelectSeq(queue, LAMBDA m : ~EncodeThrows(Stamp(m)))) ]_vars

\* C6: send of an instance whose type has no entry in the manager's registry
\* throws, transmits nothing and enqueues nothing, whatever its channel tag.
C6_SendRejectsUnregisteredType ==
    [][ (last'.op = "send" /\ ~IsRegistered(last'.data.cls))
           => last'.threw /\ UNCHANGED <<queue, transmitted>> ]_vars

\* C7: on a Ready manager, send of an (encodable) instance of a registered
\* type transmits it tagged with the channel registered for its type,
\* whatever the caller stored in its channel field.
C7_TagStampedFromType ==
    [][ (last'.op = "send" /\ isReady /\ IsRegistered(last'.data.cls)
            /\ last'.data.value # "cyclic")
           => /\ ~last'.threw
              /\ Len(transmitted') = Len(transmitted) + 1
              /\ transmitted'[Len(transmitted')].chan = RegisteredChannel(last'.data.cls) ]_vars

\* C2: when a dispatched message is matched by some pending awaiter, exactly
\* one awaiter is resolved, with that message, and no listener is invoked.
C2_AwaiterPrecedence ==
    [][ (Dispatches /\ SomeAwaiterMatches(awaiters, last'.notified))
           => /\ Len(last'.resolved) = 1
              /\ last'.resolved[1].data = last'.notified
              /\ resolvedCount'[last'.resolved[1].id] = resolvedCount[last'.resolved[1].id] + 1
              /\ last'.invoked = <<>> ]_vars

C2_Witness ==
    /\ last.op = "onData"
    /\ Len(last.resolved) = 1
    /\ ChannelOf(last.notified) \in DOMAIN listeners
    /\ listeners[ChannelOf(last.notified)] # <<>>

\* the creation numbers of the pending awaiters that match the message
MatchingIds(aw, data) == {aw[i].id : i \in {j \in 1..Len(aw) : Matches(aw[j], data)}}

\* C3: the awaiter resolved by a dispatched message is the earliest-created
\* pending awaiter that matches it (awaiters are numbered in awaitMessage
\* call order); a non-matching earlier awaiter never blocks a later one.
C3_FirstRegisteredFirstServed ==
    [][ (Dispatches /\ MatchingIds(awaiters, last'.notified) # {})
           => LET ids == MatchingIds(awaiters, last'.notified)
                  first == CHOOSE id \in ids : \A other \in ids : id <= other
              IN  /\ last'.resolved = <<[id |-> first, data |-> last'.notified]>>
                  /\ Matches(created[first], last'.notified) ]_vars

C3_Witness ==
    /\ last.op = "onData"
    /\ Len(last.resolved) = 1
    /\ \E i \in 1..Len(awaiters) :
          /\ awaiters[i].id > last.resolved[1].id
          /\ Matches(awaiters[i], last.notified)

PendingIds(aw) == {aw[i].id : i \in 1..Len(aw)}

\* C4: every awaiter is resolved at most once; the message that resolves it
\* removes it from the list; a later message it would have matched goes to
\* a still pending awaiter or, when none matches, to the channel's listeners.
C4_AwaitersAreOneShot ==
    [][ /\ \A id \in DOMAIN resolvedCount' : resolvedCount'[id] <= 1
        /\ last'.op = "onData" =>
              \A k \in 1..Len(last'.resolved) :
                 /\ last'.resolved[k].id \in PendingIds(awaiters)
                 /\ last'.resolved[k].id \notin PendingIds(awaiters')
                 /\ Len(awaiters') = Len(awaiters) - 1
        /\ (Dispatches /\ ~SomeAwaiterMatches(awaiters, last'.notified))
              => /\ last'.resolved = <<>>
                 /\ last'.invoked = Broadcast(listeners, last'.notified) ]_vars

C4_Witness ==
    /\ last.op = "onData"
    /\ last.notified.value = "7"
    /\ last.resolved = <<>>
    /\ last.invoked # <<>>
    /\ \E id \in 1..Len(created) :
          /\ resolvedCount[id] = 1
          /\ Matches(created[id], last.notified)

\* C5: a dispatched message that no pending awaiter matches is passed to
\* every callback registered under its channel, once each, to no callback
\* registered only under another channel, and the awaiter list is unchanged.
C5_ListenerBroadcast ==
    [][ (Dispatches /\ ~SomeAwaiterMatches(awaiters, last'.notified))
           => LET ch == ChannelOf(last'.notified)
                  registered == IF ch \in DOMAIN listeners THEN Range(listeners[ch]) ELSE {}
              IN  /\ Range(last'.invoked) = registered
                  /\ Len(last'.invoked) = Cardinality(registered)
                  /\ last'.resolved = <<>>
                  /\ awaiters' = awaiters ]_vars

C5_Witness ==
    /\ last.op = "onData"
    /\ Range(last.invoked) = {"cb2"}
    /\ "alien" \in DOMAIN listeners
    /\ listeners["alien"] = <<"cb1">>
    /\ awaiters # <<>>

\* the channel a delivered value carries
CarriedChannel(data) == IF data.form = "obj" THEN ChannelOf(data) ELSE Undefined

\* C8: raw data whose channel is a string without an entry in the manager's
\* registry invokes no listener, resolves no awaiter, throws nothing and
\* leaves listeners, awaiters, queue and ready flag unchanged.
C8_UnknownChannelDrop ==
    [][ (last'.op = "onData" /\ IsString(CarriedChannel(last'.data))
            /\ CarriedChannel(last'.data) \notin DOMAIN Entries)
           => /\ ~last'.threw
              /\ last'.invoked = <<>>
              /\ last'.resolved = <<>>
              /\ UNCHANGED <<listeners, awaiters, queue, isReady>> ]_vars

\* the delivered value fails before dispatch: decode throws on it, or its
\* channel is not a string, or (in a manager with a finalize step) the
\* validator registered for its channel rejects it
DecodeFault(data) == kind = "json" /\ data.form \in {"garbage", "null"}
ChannelFault(data) == data.form \in {"prim", "obj"} /\ ~IsString(CarriedChannel(data))
FinalizeFault(data) ==
    /\ kind = "json"
    /\ data.form = "obj"
    /\ CarriedChannel(data) \in DOMAIN Entries
    /\ ~Strat(Entries[CarriedChannel(data)].strats, data)

\* C9: a delivered value on which decode throws, whose channel is not a
\* string, or which finalize rejects reaches no listener and no awaiter and
\* leaves the whole manager state as it was.
C9_ReceiveFaultsAreDropped ==
    [][ (last'.op = "onData"
            /\ (DecodeFault(last'.data) \/ ChannelFault(last'.data) \/ FinalizeFault(last'.data)))
           => /\ last'.notified = NoData
              /\ last'.invoked = <<>>
              /\ last'.resolved = <<>>
              /\ UNCHANGED <<dispatchVars, sendVars, registryVars>> ]_vars

C9_Witness ==
    /\ last.op = "onData"
    /\ FinalizeFault(last.data)
    /\ \E i \in 1..Len(awaiters) : Matches(awaiters[i], last.data)
    /\ "pong" \in DOMAIN listeners
    /\ listeners["pong"] # <<>>

\* C10: onData never propagates an error to its caller, whatever is delivered.
C10_OnDataNeverThrows == last.op = "onData" => ~last.threw

\* C11: ready() on a manager that is already Ready is a no-op: it transmits
\* nothing (again) and leaves the queue and the flag as they are, whatever
\* happened during the first ready().
C11_ReadyIsIdempotent ==
    [][ (isReady /\ last'.op = "ready")
           => UNCHANGED <<transmitted, queue, isReady>> ]_vars

\* C12: after every call the outbound queue is non-empty only while the
\* manager is NotReady.
C12_QueueEmptyOnceReady == isReady => queue = <<>>

\* the instance cannot be sent: its type has no entry in the manager's
\* registry, or encode throws for it
CannotBeSent(data) == ~IsRegistered(data.cls) \/ EncodeThrows(Stamp(data))

\* C13: send of a message that cannot be sent (unregistered type, or encode
\* throws for it) throws at that call and does not enqueue the message,
\* whether the manager is Ready or NotReady.
C13_UnsendableFailsAtSend ==
    [][ (last'.op = "send" /\ CannotBeSent(last'.data))
           => last'.threw /\ queue' = queue /\ transmitted' = transmitted ]_vars

\* C14: every message that reaches notifyListeners carries a channel that is
\* registered and satisfies the validator registered for that channel, for
\* the JSON manager and for the internal manager.
C14_ValidationGate ==
    (last.op = "onData" /\ last.notified # NoData)
        => /\ ChannelOf(last.notified) \in DOMAIN Entries
           /\ Strat(Entries[ChannelOf(last.notified)].strats, last.notified)

\* C15: the instance onData passes to notifyListeners has as runtime type the
\* type registered for the channel that was looked up, and its channel tag
\* is that channel.
C15_TypeRetagging ==
    (last.op = "onData" /\ last.notified # NoData)
        => /\ CarriedChannel(last.data) \in DOMAIN Entries
           /\ last.notified.cls = Entries[CarriedChannel(last.data)].cls
           /\ ChannelOf(last.notified) = CarriedChannel(last.data)

\* the callbacks registered under a channel, in insertion order
Registered(ls, channel) == IF channel \in DOMAIN ls THEN ls[channel] ELSE <<>>

\* the number of times x occurs in seq
Occurrences(seq, x) == Cardinality({i \in 1..Len(seq) : seq[i] = x})

\* C16: stopListening(channel, cb) leaves cb unregistered under that channel
\* and every other registration (other callbacks of the channel, every
\* callback of other channels) as it was; when cb was not registered nothing
\* changes. A dispatch invokes only callbacks registered under the message's
\* channel at that moment, and only listen registers a callback, so a
\* cancelled callback is not invoked until it is registered again.
C16_StopListeningCancels ==
    [][ /\ last'.op = "stopListening"
            => LET ch == StaticChannel(protoChannel, last'.cls)
               IN  /\ last'.cb \notin Range(Registered(listeners', ch))
                   /\ \A k \in DOMAIN listeners \cup DOMAIN listeners' :
                        \A c \in Callbacks :
                          (k # ch \/ c # last'.cb)
                             => (c \in Range(Registered(listeners', k))
                                   <=> c \in Range(Registered(listeners, k)))
                   /\ last'.cb \notin Range(Registered(listeners, ch))
                         => listeners' = listeners
        /\ Dispatches
            => Range(last'.invoked)
                  \subseteq Range(Registered(listeners, ChannelOf(last'.notified)))
        /\ \A k \in DOMAIN listeners' :
             \A c \in Range(listeners'[k]) \ Range(Registered(listeners, k)) :
                /\ last'.op = "listen"
                /\ last'.cb = c
                /\ StaticChannel(protoChannel, last'.cls) = k ]_vars

C16_Witness ==
    /\ last.op = "stopListening"
    /\ last.cls = "Pong"
    /\ last.cb = "cb1"
    /\ "pong" \in DOMAIN listeners
    /\ listeners["pong"] = <<"cb2">>
    /\ "alien" \in DOMAIN listeners
    /\ listeners["alien"] = <<"cb1">>

\* C17: listen(channel, cb) leaves cb registered exactly once under the
\* channel, and changes nothing when cb was registered already; a broadcast
\* invokes no callback more than once; one stopListening(channel, cb) leaves
\* no registration of cb under the channel.
C17_DuplicateListenIsIdempotent ==
    [][ /\ last'.op = "listen"
            => LET ch == StaticChannel(protoChannel, last'.cls)
               IN  /\ Occurrences(Registered(listeners', ch), last'.cb) = 1
                   /\ last'.cb \in Range(Registered(listeners, ch))
                         => listeners' = listeners
        /\ Dispatches
            => \A c \in Callbacks : Occurrences(last'.invoked, c) <= 1
        /\ last'.op = "stopListening"
            => Occurrences(Registered(listeners',
                              StaticChannel(protoChannel, last'.cls)), last'.cb) = 0 ]_vars

\* listen(Pong, cb1) was the last call, on a table where cb1 was registered
\* before cb2
C17_Witness ==
    /\ last.op = "listen"
    /\ last.cls = "Pong"
    /\ last.cb = "cb1"
    /\ "pong" \in DOMAIN listeners
    /\ listeners["pong"] = <<"cb1", "cb2">>

\* sent: the instance x the last call sent on a Ready manager; delivered: the
\* step hands what that call transmitted to onData. x is of a type registered
\* in the manager's registry and satisfies the validator of that type.
RoundTripOf(x) ==
    /\ kind = "json"
    /\ isReady
    /\ last.op = "send"
    /\ ~last.threw
    /\ last.data = x
    /\ IsRegistered(x.cls)
    /\ Strat(Entries[RegisteredChannel(x.cls)].strats, x)
    /\ last'.op = "onData"
    /\ last'.data = transmitted[Len(transmitted)]

\* the round trip dispatched an instance of x's type with x's fields and the
\* channel x's type is registered under
DispatchedEqualTo(x) ==
    /\ ~last'.threw
    /\ last'.notified = [x EXCEPT !.chan = RegisteredChannel(x.cls)]

\* every field of the instance is a JSON value: JSON text has no NaN
JsonValue(x) == x.value # "NaN"

\* C18: an instance x of a registered type that satisfies the type's
\* validator, sent on a Ready JSON manager and delivered as transmitted to
\* onData of a JSON manager over the same registry, is dispatched equal to x
\* field by field under the channel its type is registered with.
C18_RoundTripIdentity ==
    [][ \A x \in RoundTripInputs : RoundTripOf(x) => DispatchedEqualTo(x) ]_vars

\* C18 as it holds: the same, for the instances whose fields are JSON values.
C18_RoundTripOfJsonValues ==
    [][ \A x \in RoundTripInputs :
           (RoundTripOf(x) /\ JsonValue(x)) => DispatchedEqualTo(x) ]_vars

C18_Witness ==
    /\ kind = "json"
    /\ last.op = "onData"
    /\ transmitted # <<>>
    /\ last.data = transmitted[Len(transmitted)]
    /\ last.notified = Obj("Pong", "pong", "5")

\* C19: after any sequence of registrations every registry entry is stored
\* under the channel currently associated with the entry's type, which is
\* the channel a new instance of that type reads.
C19_RegistryKeyInvariant ==
    \A reg \in Registries :
       \A key \in DOMAIN registries[reg] :
          /\ StaticChannel(protoChannel, registries[reg][key].cls) = key
          /\ ChannelOf(Obj(registries[reg][key].cls, Absent, "-")) = key

\* C20: the manager starts NotReady; a Ready manager stays Ready whatever
\* is called and whether or not the call throws; and only ready() makes a
\* NotReady manager Ready.
C20_ReadinessIsMonotonic ==
    /\ ~isReady
    /\ [][ /\ isReady => isReady'
           /\ (~isReady /\ isReady') => last'.op = "ready" ]_vars

\* a Ready manager whose last drain was aborted, after an onData that threw
C20_Witness ==
    /\ isReady
    /\ queue # <<>>
    /\ last.op = "onData"
    /\ last.threw

\* a is b with some elements left out
RECURSIVE IsSubsequence(_, _)
IsSubsequence(a, b) ==
    IF a = <<>> THEN TRUE
    ELSE IF b = <<>> THEN FALSE
    ELSE IF Head(a) = Head(b) THEN IsSubsequence(Tail(a), Tail(b))
    ELSE IsSubsequence(a, Tail(b))

\* the order in which send accepted the messages a ready() call can
\* transmit: the queued ones, then the one sent during the drain
AcceptOrder ==
    EncodedForms(queue) \o
        (IF last'.data = NoData THEN <<>> ELSE <<Encode(Stamp(last'.data))>>)

\* C21: the transmit calls made during one ready() follow the order in which
\* send accepted the messages, each message at most once: the queued
\* messages in queue order, and only then a message sent while the queue is
\* being drained.
C21_GlobalFifo ==
    [][ last'.op = "ready"
           => IsSubsequence(SubSeq(transmitted', Len(transmitted) + 1, Len(transmitted')),
                            AcceptOrder) ]_vars

\* C22: a message that send accepted and queued, and that can be encoded, is
\* eventually passed to transmit when ready() keeps being called.
C22_NoMessageLost ==
    \A m \in SendInputs :
       []((m \in Range(queue) /\ ~EncodeThrows(Stamp(m)))
             => <>(Encode(Stamp(m)) \in Range(transmitted)))

\* the awaiter list without the awaiter numbered id
WithoutAwaiter(aw, id) == SelectSeq(aw, LAMBDA a : a.id # id)

\* C23: awaitMessage appends one awaiter at the end of the list; an onData
\* that dispatches a message removes the one awaiter it resolved, which
\* matched the message, and keeps the others in their order, or removes
\* none; listen, stopListening, send, ready and an onData that drops its
\* message leave the awaiter list as it is.
C23_AwaiterListFrame ==
    [][ /\ last'.op = "awaitMessage"
            => /\ Len(awaiters') = Len(awaiters) + 1
               /\ SubSeq(awaiters', 1, Len(awaiters)) = awaiters
        /\ Dispatches
            => \/ /\ last'.resolved = <<>>
                  /\ awaiters' = awaiters
               \/ /\ Len(last'.resolved) = 1
                  /\ \E i \in 1..Len(awaiters) :
                        /\ awaiters[i].id = last'.resolved[1].id
                        /\ Matches(awaiters[i], last'.notified)
                  /\ awaiters' = WithoutAwaiter(awaiters, last'.resolved[1].id)
        /\ (last'.op = "onData" /\ last'.notified = NoData) => awaiters' = awaiters
        /\ last'.op \in {"listen", "stopListening", "send", "ready"}
            => awaiters' = awaiters ]_vars

\* with three awaiters pending, of which the first did not match, an onData
\* resolved the one created second and left the first and the third pending,
\* in that order
C23_Witness ==
    /\ last.op = "onData"
    /\ Len(last.resolved) = 1
    /\ last.resolved[1].id = 2
    /\ Len(awaiters) = 2
    /\ awaiters[1].id = 1
    /\ awaiters[2].id = 3
    /\ ~Matches(awaiters[1], last.notified)
    /\ Matches(awaiters[2], last.notified)

\* C24: the callbacks invoked for a broadcast message are exactly those
\* registered under its channel when the dispatch starts, once each,
\* whatever the invoked callbacks register or cancel meanwhile.
C24_BroadcastUsesStableSet ==
    [][ (Dispatches /\ ~SomeAwaiterMatches(awaiters, last'.notified))
           => LET atStart == Registered(listeners, ChannelOf(last'.notified))
              IN  /\ Range(last'.invoked) = Range(atStart)
                  /\ Len(last'.invoked) = Len(atStart) ]_vars

\* the delivered value passes the receive path of the manager: it decodes,
\* carries a registered channel and (where there is a finalize step)
\* satisfies the validator of that channel
Deliverable(data) ==
    /\ ~DecodeFault(data)
    /\ IsString(CarriedChannel(data))
    /\ CarriedChannel(data) \in DOMAIN Entries
    /\ ~FinalizeFault(data)

\* C25: onData dispatches a delivered value exactly when the value passes
\* the receive path, to the first matching awaiter or else to the listeners
\* of its channel, whether the manager is Ready or not, and leaves the
\* queue, the ready flag and the transmit log alone; send and ready leave
\* the listener table and the awaiter list alone, invoke no listener and
\* resolve no awaiter.
C25_SendReceiveIndependence ==
    [][ /\ last'.op = "onData"
            => /\ UNCHANGED <<queue, isReady, transmitted>>
               /\ (last'.notified # NoData) <=> Deliverable(last'.data)
               /\ (last'.resolved # <<>>)
                     <=> (Dispatches /\ SomeAwaiterMatches(awaiters, last'.notified))
               /\ (Dispatches /\ last'.resolved = <<>>)
                     => Range(last'.invoked)
                           = Range(Registered(listeners, ChannelOf(last'.notified)))
        /\ last'.op \in {"send", "ready"}
            => /\ UNCHANGED <<listeners, awaiters, created, resolvedCount>>
               /\ last'.invoked = <<>>
               /\ last'.resolved = <<>>
               /\ last'.notified = NoData ]_vars

\* a message was dispatched to a listener while the manager was NotReady
\* with messages queued
C25_Witness ==
    /\ ~isReady
    /\ queue # <<>>
    /\ last.op = "onData"
    /\ last.notified # NoData
    /\ last.invoked # <<>>

----------------------------------------------------------------------------
(* Specifications *)

Init ==
    /\ kind \in {"json", "internal"}
    /\ LET st == Decorate(NoRegistrations, Decorators)
       IN  registries = st.registries /\ protoChannel = st.protoChannel
    /\ listeners = <<>>
    /\ awaiters = <<>>
    /\ queue = <<>>
    /\ refs = <<>>
    /\ isReady = FALSE
    /\ transmitted = <<>>
    /\ created = <<>>
    /\ resolvedCount = <<>>
    /\ last = Outcome("new", NoData, FALSE)

NextSend ==
    \/ \E data \in SendInputs : Send(data)
    \/ \E k \in 1..MaxQueue : SendAgain(k)
    \/ Ready

SpecSend == Init /\ [][NextSend]_vars

NextRecv ==
    \/ \E in \in ListenInputs : Listen(in[1], in[2])
    \/ \E in \in ListenInputs : StopListening(in[1], in[2])
    \/ \E in \in AwaitInputs : AwaitMessage(in[1], in[2])
    \/ \E data \in RawInputs : OnData(data)

SpecRecv == Init /\ [][NextRecv]_vars

\* a Ready manager whose transport loops back
NextLoop ==
    \/ \E data \in RoundTripInputs : Send(data)
    \/ \E k \in 1..MaxQueue : SendAgain(k)
    \/ Ready
    \/ Echo

SpecLoop == Init /\ [][NextLoop]_vars

\* module load: no class is registered yet, the decorators run one by one
InitReg ==
    /\ kind \in {"json", "internal"}
    /\ registries = NoRegistrations.registries
    /\ protoChannel = NoRegistrations.protoChannel
    /\ listeners = <<>>
    /\ awaiters = <<>>
    /\ queue = <<>>
    /\ refs = <<>>
    /\ isReady = FALSE
    /\ transmitted = <<>>
    /\ created = <<>>
    /\ resolvedCount = <<>>
    /\ last = Outcome("new", NoData, FALSE)

NextReg ==
    \/ \E reg \in Registries, channel \in RegistrationChannels, cls \in RegistrationClasses :
          DecorateClass(reg, channel, cls)
    \/ \E reg \in Registries, cls \in RegistrationClasses : RegisterClass(reg, cls)

SpecReg == InitReg /\ [][NextReg]_vars

\* both directions of one manager, in a program that sends each instance once
NextMixed ==
    \/ \E data \in MixedSendInputs : Send(data)
    \/ Ready
    \/ Listen("Pong", "cb1")
    \/ StopListening("Pong", "cb1")
    \/ \E predicate \in Predicates : AwaitMessage("Pong", predicate)
    \/ \E data \in MixedRawInputs : OnData(data)

SpecMixed == Init /\ [][NextMixed]_vars

\* the calls of a program that keeps several awaiters pending
FrameRawInputs ==
    { [NoData EXCEPT !.form = "null"],
      Obj("Object", "pong", "5"),
      Obj("Object", "pong", "7"),
      Obj("Object", "alien", "5") }

NextFrame ==
    \/ \E a \in AwaitInputs : AwaitMessageWithin(MaxPending, a[1], a[2])
    \/ \E data \in FrameRawInputs : OnData(data)
    \/ Listen("Pong", "cb1")
    \/ StopListening("Pong", "cb1")
    \/ Send(Obj("Ping", Absent, "-"))
    \/ Ready

SpecFrame == Init /\ [][NextFrame]_vars

\* the send side of a manager whose transport calls ready() whenever that
\* call would do something (ws.onopen: this.ready())
SpecSendFair == Init /\ [][NextSend]_vars /\ WF_vars(Ready)

\* the send side with a transport that may send from inside transmit
NextDrain ==
    \/ \E data \in SendInputs : Send(data)
    \/ \E k \in 1..MaxQueue : SendAgain(k)
    \/ Ready
    \/ \E at \in 1..MaxQueue, inner \in ReentrantInputs : ReadyReentrant(at, inner)

SpecDrain == Init /\ [][NextDrain]_vars

\* the receive side with callbacks that register and cancel listeners while
\* they are invoked
NextBroadcast ==
    \/ \E l \in ListenInputs : Listen(l[1], l[2])
    \/ \E l \in ListenInputs : StopListening(l[1], l[2])
    \/ \E a \in AwaitInputs : AwaitMessage(a[1], a[2])
    \/ \E data \in ReentrantRawInputs, re \in Reentries : OnDataReentrant(data, re)

SpecBroadcast == Init /\ [][NextBroadcast]_vars

Next == NextSend \/ NextRecv

Spec == Init /\ [][Next]_vars

====
